---- MODULE Spec2Model ----
(***************************************************************************)
(* A model of the monster production-grammar engine: the grammar parser's  *)
(* node constructors (monster.go), the builtins Let, Inc and Bag, and the  *)
(* scope / form / weighted-selection machinery of package common, which    *)
(* the parser and the builtins call.                                       *)
(*                                                                         *)
(* Text is modelled as sequences of one-character strings, so that         *)
(* slicing (n.Value[1:]), concatenation (str += ...) and the token         *)
(* regular expressions are computed, not assumed.  Go's float64 weights    *)
(* are fixed-point integers in units of 1/One.                             *)
(***************************************************************************)
EXTENDS Integers, Sequences, FiniteSets, TLC

VARIABLES prod,          \* the parsed production: name -> alternatives (parsec nodes)
          seedIn,        \* the seed argument handed to BuildContext
          nonterminals,  \* scope["_nonterminals"]: name -> rule forms
          parsed,        \* "no" | "yes" | "panic": whether Y has run
          rt,            \* per run: the scope and the evaluation stack
          lex,           \* one token of production text going through ruletok / formarg
          incst,         \* a scope and an argument list going through Inc
          bag            \* the process-wide bag cache, its lock and the calling goroutines

vars == <<prod, seedIn, nonterminals, parsed, rt, lex, incst, bag>>

----------------------------------------------------------------------------
(* Bounds of the model.                                                    *)

MaxAlts == 3        \* alternatives per nonterminal in the weight family
MaxBody == 2        \* sub-forms per rule body in the body family
MaxCalls == 2       \* driver calls (RebuildContext / EvalForms) per run
MaxSeed == 3        \* seeds 0..MaxSeed
MaxLex == 3         \* characters per lexeme
MaxVal == 2         \* integer values bound in the Inc scopes
NumGo == 2          \* goroutines calling Bag
MaxBagCalls == 3    \* Bag calls in all

(* 1.0 in fixed-point weight units; divisible by every alternative count   *)
(* the model reaches.                                                      *)
One == 60

----------------------------------------------------------------------------
(* Values: Go's interface{} restricted to int64, float64, string and nil.  *)

Nil == [t |-> "nil", i |-> 0, s |-> <<>>]
IntV(n) == [t |-> "int", i |-> n, s |-> <<>>]
FloatV(n) == [t |-> "float", i |-> n, s |-> <<>>]
StrV(str) == [t |-> "str", i |-> 0, s |-> str]

Digit(d) == <<"0", "1", "2", "3", "4", "5", "6", "7", "8", "9">>[d + 1]

RECURSIVE ItoaNat(_)
ItoaNat(n) == IF n < 10 THEN <<Digit(n)>> ELSE ItoaNat(n \div 10) \o <<Digit(n % 10)>>

(* strconv.Itoa *)
Itoa(n) == IF n < 0 THEN <<"-">> \o ItoaNat(-n) ELSE ItoaNat(n)

(* fmt.Sprintf("%v", val) for the values of the model.  A float prints its *)
(* fixed-point units; no claim reads a printed float.                      *)
Fmt(v) == CASE v.t = "str" -> v.s
            [] v.t = "int" -> Itoa(v.i)
            [] v.t = "float" -> <<"f">> \o Itoa(v.i)
            [] OTHER -> <<"<", "n", "i", "l", ">">>

----------------------------------------------------------------------------
(* Forms (common.Form): a name tag, what the evaluator closure captured    *)
(* (txt: a token's text; v: a captured value; args: sub-forms), and the    *)
(* weight and restrain fields.                                             *)

NewForm(tag, txt, v, args) ==
    [tag |-> tag, txt |-> txt, v |-> v, args |-> args, weight |-> 0, restrain |-> 0]

SetWeight(f, weight, restrain) == [f EXCEPT !.weight = weight, !.restrain = restrain]

SetDefaultWeight(f, weight) == IF f.weight = 0 THEN [f EXCEPT !.weight = weight] ELSE f

literals == (<<"D", "Q">> :> <<"\"">>) @@ (<<"N", "L">> :> <<"\n">>)

(* termNode: str, _ := literals[n.Value]; a missing key reads "".          *)
termNode(txt) ==
    NewForm("##term", txt, StrV(IF txt \in DOMAIN literals THEN literals[txt] ELSE <<>>), <<>>)

refNode(txt) == NewForm("##ref", txt, Nil, <<>>)

identNode(txt) == NewForm("##ident", txt, Nil, <<>>)

stringNode(txt) == NewForm("##string", txt, StrV(txt), <<>>)

formtokForm(txt) == NewForm("##formtok", txt, StrV(txt), <<>>)

----------------------------------------------------------------------------
(* The token parsers (parsec.Token anchors its regular expression at the   *)
(* cursor): each returns the length of the prefix it matches, 0 for none.  *)

LowerCh == {"a", "b", "c", "d", "e", "f", "g", "h", "i", "j", "k", "l", "m",
            "n", "o", "p", "q", "r", "s", "t", "u", "v", "w", "x", "y", "z"}
UpperCh == {"A", "B", "C", "D", "E", "F", "G", "H", "I", "J", "K", "L", "M",
            "N", "O", "P", "Q", "R", "S", "T", "U", "V", "W", "X", "Y", "Z"}
DigitCh == {"0", "1", "2", "3", "4", "5", "6", "7", "8", "9"}
SpaceParenCh == {" ", "\t", "\r", "\n", "(", ")"}

RECURSIVE RunLen(_, _)
RunLen(txt, class) ==
    IF txt # <<>> /\ Head(txt) \in class THEN 1 + RunLen(Tail(txt), class) ELSE 0

RECURSIVE RunLenNot(_, _)
RunLenNot(txt, class) ==
    IF txt # <<>> /\ Head(txt) \notin class THEN 1 + RunLenNot(Tail(txt), class) ELSE 0

(* `[^ \t\r\n\(\)]+` *)
formtok(txt) == RunLenNot(txt, SpaceParenCh)

(* `[a-z0-9]+` *)
ident(txt) == RunLen(txt, LowerCh \cup DigitCh)

(* `[$#][a-z0-9]+` *)
ref(txt) ==
    IF txt # <<>> /\ Head(txt) \in {"$", "#"} /\ ident(Tail(txt)) > 0
    THEN 1 + ident(Tail(txt)) ELSE 0

(* `[A-Z][A-Z0-9]*` *)
term(txt) ==
    IF txt # <<>> /\ Head(txt) \in UpperCh
    THEN 1 + RunLen(Tail(txt), UpperCh \cup DigitCh) ELSE 0

(* parsec.Int(): an optional sign and decimal digits.                      *)
intTok(txt) ==
    IF txt # <<>> /\ Head(txt) \in {"-", "+"}
    THEN (IF RunLen(Tail(txt), DigitCh) > 0 THEN 1 + RunLen(Tail(txt), DigitCh) ELSE 0)
    ELSE RunLen(txt, DigitCh)

DigitVal(c) == CHOOSE d \in 0..9 : Digit(d) = c

RECURSIVE AtoiNat(_, _)
AtoiNat(txt, acc) ==
    IF txt = <<>> THEN acc ELSE AtoiNat(Tail(txt), 10 * acc + DigitVal(Head(txt)))

(* strconv.ParseInt(t.Value, 10, 64) on a matched INT token.               *)
ParseInt(txt) ==
    IF Head(txt) = "-" THEN -AtoiNat(Tail(txt), 0)
    ELSE IF Head(txt) = "+" THEN AtoiNat(Tail(txt), 0)
    ELSE AtoiNat(txt, 0)

(* litNode, for the INT terminal.  The other alternatives of literaltok    *)
(* (Float, Hex, Oct, String, true, false) need a '.', a leading 0, a quote *)
(* or the letters of true/false, which the lexemes of the model lack.      *)
litNode(txt) == NewForm("##literaltok", txt, IntV(ParseInt(txt)), <<>>)

literaltok(txt) == intTok(txt)

NoForm == NewForm("##none", <<>>, Nil, <<>>)

(* formtokNode: the nodifier of formarg, switching on the terminal's name. *)
formtokNode(name, txt) ==
    CASE name = "TERM" -> termNode(txt)
      [] name = "REF" -> refNode(txt)
      [] name = "FORMTOK" -> formtokForm(txt)
      [] OTHER -> NoForm

(* ruletokNode: the nodifier of ruletok.                                   *)
ruletokNode(name, txt) ==
    CASE name = "IDENT" -> identNode(txt)
      [] name = "TERM" -> termNode(txt)
      [] name = "REF" -> refNode(txt)
      [] OTHER -> NoForm

Prefix(txt, n) == SubSeq(txt, 1, n)

(* formarg = OrdChoice(formtokNode, literaltok, ref, formtok, &form): the  *)
(* first parser that matches at the cursor wins.  A nested form needs "(". *)
formarg(txt) ==
    IF literaltok(txt) > 0 THEN litNode(Prefix(txt, literaltok(txt)))
    ELSE IF ref(txt) > 0 THEN formtokNode("REF", Prefix(txt, ref(txt)))
    ELSE IF formtok(txt) > 0 THEN formtokNode("FORMTOK", Prefix(txt, formtok(txt)))
    ELSE NoForm

(* ruletok = OrdChoice(ruletokNode, ident, term, sTring, ref, &form).      *)
(* A string needs a quote and a form needs "(".                            *)
ruletok(txt) ==
    IF ident(txt) > 0 THEN ruletokNode("IDENT", Prefix(txt, ident(txt)))
    ELSE IF term(txt) > 0 THEN ruletokNode("TERM", Prefix(txt, term(txt)))
    ELSE IF ref(txt) > 0 THEN ruletokNode("REF", Prefix(txt, ref(txt)))
    ELSE NoForm

----------------------------------------------------------------------------
(* Scope (common.Scope): a local layer and the shared _globals layer.      *)

EmptyMap == [x \in {} |-> Nil]

Get(sc, name) ==
    IF name \in DOMAIN sc.local THEN [val |-> sc.local[name], g |-> FALSE, ok |-> TRUE]
    ELSE IF name \in DOMAIN sc.globals THEN [val |-> sc.globals[name], g |-> TRUE, ok |-> TRUE]
    ELSE [val |-> Nil, g |-> FALSE, ok |-> FALSE]

Set(sc, name, val, global) ==
    IF global THEN [sc EXCEPT !.globals = (name :> val) @@ sc.globals]
    ELSE [sc EXCEPT !.local = (name :> val) @@ sc.local]

(* What an evaluation yields: the scope after it, its value, and whether   *)
(* it panicked.                                                            *)
Res(sc, val, panic) == [sc |-> sc, val |-> val, panic |-> panic]

----------------------------------------------------------------------------
(* Builtins.                                                               *)

RECURSIVE LetFrom(_, _, _)
LetFrom(sc, args, i) ==
    IF i > Len(args) THEN Res(sc, StrV(<<>>), FALSE)
    ELSE IF args[i].t # "str" \/ i + 1 > Len(args) THEN Res(sc, Nil, TRUE)
    ELSE LetFrom(Set(sc, args[i].s, args[i + 1], FALSE), args, i + 2)

Let(sc, args) == LetFrom(sc, args, 1)

IncSubtracts(sc, args) ==
    IF Len(args) = 0 \/ args[1].t # "str" THEN Res(sc, Nil, TRUE)
    ELSE IF Len(args) > 1 /\ args[2].t # "int" THEN Res(sc, Nil, TRUE)
    ELSE LET name == args[1].s
             by == IF Len(args) > 1 THEN args[2].i ELSE 1
             got == Get(sc, name)
         IN  IF ~got.ok THEN Res(sc, StrV(<<>>), FALSE)
             ELSE IF got.val.t # "int" THEN Res(sc, Nil, TRUE)
             ELSE Res(Set(sc, name, IntV(got.val.i - by), got.g), StrV(<<>>), FALSE)

IncAlwaysLocal(sc, args) ==
    IF Len(args) = 0 \/ args[1].t # "str" THEN Res(sc, Nil, TRUE)
    ELSE IF Len(args) > 1 /\ args[2].t # "int" THEN Res(sc, Nil, TRUE)
    ELSE LET name == args[1].s
             by == IF Len(args) > 1 THEN args[2].i ELSE 1
             got == Get(sc, name)
         IN  IF ~got.ok THEN Res(sc, StrV(<<>>), FALSE)
             ELSE IF got.val.t # "int" THEN Res(sc, Nil, TRUE)
             ELSE Res(Set(sc, name, IntV(got.val.i + by), FALSE), StrV(<<>>), FALSE)

(* Inc.  The type assertions args[0].(string), args[1].(int64) and         *)
(* value.(int64) panic on another type.                                    *)
Inc(sc, args) ==
    IF Len(args) = 0 \/ args[1].t # "str" THEN Res(sc, Nil, TRUE)
    ELSE IF Len(args) > 1 /\ args[2].t # "int" THEN Res(sc, Nil, TRUE)
    ELSE LET name == args[1].s
             by == IF Len(args) > 1 THEN args[2].i ELSE 1
             got == Get(sc, name)
         IN  IF ~got.ok THEN Res(sc, StrV(<<>>), FALSE)
             ELSE IF got.val.t # "int" THEN Res(sc, Nil, TRUE)
             ELSE Res(Set(sc, name, IntV(got.val.i + by), got.g), StrV(<<>>), FALSE)

----------------------------------------------------------------------------
(* Bag files.  A file is its lines; readBag is encoding/csv's ReadAll on   *)
(* unquoted text: fields split at commas, empty lines skipped, and a       *)
(* record whose field count differs from the first record's is an error.   *)

RECURSIVE SplitComma(_, _)
SplitComma(line, field) ==
    IF line = <<>> THEN <<field>>
    ELSE IF Head(line) = "," THEN <<field>> \o SplitComma(Tail(line), <<>>)
    ELSE SplitComma(Tail(line), Append(field, Head(line)))

RECURSIVE CsvRows(_)
CsvRows(lines) ==
    IF lines = <<>> THEN <<>>
    ELSE IF Head(lines) = <<>> THEN CsvRows(Tail(lines))
    ELSE <<SplitComma(Head(lines), <<>>)>> \o CsvRows(Tail(lines))

CsvError(rows) == \E j \in 1..Len(rows) : Len(rows[j]) # Len(rows[1])

(* readBag: panics when the file cannot be opened or is not CSV.           *)
readBag(fs, filename) ==
    IF filename \notin DOMAIN fs THEN [panic |-> TRUE, records |-> <<>>]
    ELSE LET rows == CsvRows(fs[filename])
         IN  IF CsvError(rows) THEN [panic |-> TRUE, records |-> <<>>]
             ELSE [panic |-> FALSE, records |-> rows]

IsAbs(path) == path # <<>> /\ Head(path) = "/"

(* filepath.Join of two elements; an empty element is ignored.             *)
Join(dir, name) ==
    IF dir = <<>> THEN name
    ELSE IF name = <<>> THEN dir
    ELSE dir \o <<"/">> \o name

RECURSIVE LastSlash(_, _)
LastSlash(path, n) == IF n = 0 \/ path[n] = "/" THEN n ELSE LastSlash(path, n - 1)

(* filepath.Dir: the path up to its last separator; "." when it has none.  *)
Dir(path) ==
    LET n == LastSlash(path, Len(path))
    IN  IF n = 0 THEN <<".">> ELSE IF n = 1 THEN <<"/">> ELSE SubSeq(path, 1, n - 1)

Cwd == <<"/", "w">>

(* filepath.Abs *)
Abs(path) == IF IsAbs(path) THEN path ELSE Join(Cwd, path)

(* The file name Bag reads: relative names are resolved against _bagdir,   *)
(* else against the directory of _prodfile.                                *)
BagPath(sc, filename) ==
    Abs(IF IsAbs(filename) THEN filename
        ELSE IF sc.bagdir.ok THEN Join(sc.bagdir.s, filename)
        ELSE IF sc.prodfile.ok THEN Join(Dir(sc.prodfile.s), filename)
        ELSE filename)

(* The tail of Bag: the first field of the record the generator picked.    *)
BagValue(records, n) ==
    IF Len(records) > 0
    THEN (IF Len(records[n + 1]) > 0 THEN records[n + 1][1] ELSE <<>>)
    ELSE <<>>

----------------------------------------------------------------------------
(* The random source: math/rand seeded by rand.NewSource, as a linear      *)
(* congruential generator of period RngM.  A draw advances the state.      *)

RngM == 16

Seeded(seed) == seed % RngM

RngNext(s) == (5 * s + 3) % RngM

(* Bag for a caller that is alone: lookup, readBag on a miss, pick.        *)
Bag(sc, fs, args) ==
    IF Len(args) = 0 \/ args[1].t # "str" THEN Res(sc, Nil, TRUE)
    ELSE LET read == readBag(fs, BagPath(sc, args[1].s))
             rnd1 == RngNext(sc.rnd)
         IN  IF read.panic THEN Res(sc, Nil, TRUE)
             ELSE IF Len(read.records) > 0
             THEN Res([sc EXCEPT !.rnd = rnd1],
                      StrV(BagValue(read.records, rnd1 % Len(read.records))), FALSE)
             ELSE Res(sc, StrV(<<>>), FALSE)

----------------------------------------------------------------------------
(* The parser's node constructors for rules.                               *)

(* What the weigh form yields when ruleNode evaluates it against an empty  *)
(* scope: the list of its argument values.                                 *)
Weigh(form) == [j \in 1..Len(form.args) |-> form.args[j].v]

Weighed(ns) == Len(ns) > 1 /\ ns[1].tag = "weigh"

(* The type assertions rs[0].(float64), rs[1].(float64) of ruleNode.       *)
ruleNodePanics(ns) ==
    /\ Weighed(ns)
    /\ LET rs == Weigh(ns[1])
       IN  Len(rs) < 2 \/ rs[1].t # "float" \/ rs[2].t # "float"

ruleNodeRestrainFromWeight(ns) ==
    LET rs == Weigh(ns[1])
        weight == IF Weighed(ns) THEN rs[1].i ELSE 0
        restrain == IF Weighed(ns) THEN rs[1].i ELSE 0
        rats == IF Weighed(ns) THEN Tail(ns) ELSE ns
    IN  SetWeight(NewForm("##rule", <<>>, Nil, rats), weight, restrain)

ruleNode(ns) ==
    LET rs == Weigh(ns[1])
        weight == IF Weighed(ns) THEN rs[1].i ELSE 0
        restrain == IF Weighed(ns) THEN rs[2].i ELSE 0
        rats == IF Weighed(ns) THEN Tail(ns) ELSE ns
    IN  SetWeight(NewForm("##rule", <<>>, Nil, rats), weight, restrain)

rulesNodeNoDivision(ns) == [j \in 1..Len(ns) |-> SetDefaultWeight(ns[j], One)]

rulesNode(ns) ==
    LET weight == One \div Len(ns)
    IN  [j \in 1..Len(ns) |-> SetDefaultWeight(ns[j], weight)]

(* ntermNode and ntermsNode: the table name -> rule forms.                 *)
ntermsNode(p) ==
    [name \in DOMAIN p |-> rulesNode([j \in 1..Len(p[name]) |-> ruleNode(p[name][j])])]

ParsePanics(p) == \E name \in DOMAIN p : \E j \in 1..Len(p[name]) : ruleNodePanics(p[name][j])

----------------------------------------------------------------------------
(* EvalForms (common.EvalForms): weighted selection of one rule of a       *)
(* nonterminal, with the running weights of the scope.                     *)

ZeroW(rules) == [j \in 1..Len(rules) |-> 0]

RunningW(sc, name, rules) == IF name \in DOMAIN sc.W THEN sc.W[name] ELSE ZeroW(rules)

Eligible(W, rules) ==
    {j \in 1..Len(rules) : W[j] + rules[j].weight >= 0 /\ rules[j].weight > 0}

Exhausted(sc, name, rules) == Eligible(RunningW(sc, name, rules), rules) = {}

RECURSIVE SumW(_, _, _)
SumW(W, rules, rem) ==
    IF rem = {} THEN 0
    ELSE LET j == CHOOSE x \in rem : TRUE
         IN  W[j] + rules[j].weight + SumW(W, rules, rem \ {j})

(* Walk the eligible rules in index order, subtracting each one's current  *)
(* weight from u (here scaled by RngM); the first that brings u to 0 or    *)
(* below is chosen.                                                        *)
RECURSIVE Walk(_, _, _, _, _)
Walk(j, u, W, rules, rem) ==
    IF j >= Len(rules) THEN j
    ELSE IF j \notin rem THEN Walk(j + 1, u, W, rules, rem)
    ELSE IF u - RngM * (W[j] + rules[j].weight) <= 0 THEN j
    ELSE Walk(j + 1, u - RngM * (W[j] + rules[j].weight), W, rules, rem)

EvalForms(sc, name, rules) ==
    LET W0 == RunningW(sc, name, rules)
        reset == Eligible(W0, rules) = {}
        W1 == IF reset THEN ZeroW(rules) ELSE W0
        rem == Eligible(W1, rules)
        rnd1 == RngNext(sc.rnd)
        k == Walk(1, rnd1 * SumW(W1, rules, rem), W1, rules, rem)
        W2 == [W1 EXCEPT ![k] = @ - rules[k].restrain]
    IN  IF rem = {} THEN [sc |-> sc, k |-> 0, fatal |-> TRUE]
        ELSE [sc |-> [sc EXCEPT !.rnd = rnd1, !.W = (name :> W2) @@ sc.W],
              k |-> k, fatal |-> FALSE]

----------------------------------------------------------------------------
(* Evaluation of the forms of a rule body.                                 *)

(* The closures of ##string, ##term, ##literaltok, ##formtok and ##ref.    *)
EvalLeaf(sc, f) ==
    CASE f.tag \in {"##string", "##term", "##literaltok", "##formtok"} -> Res(sc, f.v, FALSE)
      [] f.tag = "##ref" /\ Head(f.txt) = "$" ->
            LET got == Get(sc, Tail(f.txt)) IN Res(sc, got.val, ~got.ok)
      [] f.tag = "##ref" /\ Head(f.txt) = "#" ->
            LET got == Get(sc, f.txt) IN Res(sc, got.val, ~got.ok)
      [] OTHER -> Res(sc, Nil, TRUE)

(* formNode, builtin branch: the arguments are evaluated in order, then    *)
(* the builtin is applied.  The arguments of the model are leaves.         *)
ArgValues(sc, f) == [j \in 1..Len(f.args) |-> EvalLeaf(sc, f.args[j]).val]

ArgPanics(sc, f) == \E j \in 1..Len(f.args) : EvalLeaf(sc, f.args[j]).panic

EvalForm(sc, fs, f) ==
    CASE f.tag = "let" ->
            IF ArgPanics(sc, f) THEN Res(sc, Nil, TRUE) ELSE Let(sc, ArgValues(sc, f))
      [] f.tag = "inc" ->
            IF ArgPanics(sc, f) THEN Res(sc, Nil, TRUE) ELSE Inc(sc, ArgValues(sc, f))
      [] f.tag = "bag" ->
            IF ArgPanics(sc, f) THEN Res(sc, Nil, TRUE) ELSE Bag(sc, fs, ArgValues(sc, f))
      [] f.tag = "##nil" -> Res(sc, Nil, FALSE)
      [] OTHER -> EvalLeaf(sc, f)

IsNonTerminalForm(f) == f.tag \in {"##ident", "#<ident>"}

(* One turn of the loop of a rule form's closure, once sub-form i has      *)
(* yielded val: nil ends the rule; otherwise #i is bound and the text      *)
(* appended.                                                               *)
RuleStepBindsFirst(sc, frame, val) ==
    IF val = Nil
    THEN [sc |-> Set(sc, <<"#">> \o Itoa(frame.i), val, FALSE),
          frame |-> [frame EXCEPT !.nilret = TRUE]]
    ELSE [sc |-> Set(sc, <<"#">> \o Itoa(frame.i), val, FALSE),
          frame |-> [frame EXCEPT !.i = @ + 1, !.str = @ \o Fmt(val), !.vals = Append(@, val)]]

RuleStepBindsNext(sc, frame, val) ==
    IF val = Nil
    THEN [sc |-> sc, frame |-> [frame EXCEPT !.nilret = TRUE]]
    ELSE [sc |-> Set(sc, <<"#">> \o Itoa(frame.i + 1), val, FALSE),
          frame |-> [frame EXCEPT !.i = @ + 1, !.str = @ \o Fmt(val), !.vals = Append(@, val)]]

RuleStep(sc, frame, val) ==
    IF val = Nil
    THEN [sc |-> sc, frame |-> [frame EXCEPT !.nilret = TRUE]]
    ELSE [sc |-> Set(sc, <<"#">> \o Itoa(frame.i), val, FALSE),
          frame |-> [frame EXCEPT !.i = @ + 1, !.str = @ \o Fmt(val), !.vals = Append(@, val)]]

NewFrame(name, k) ==
    [nt |-> name, k |-> k, i |-> 0, str |-> <<>>, vals |-> <<>>, nilret |-> FALSE]

Top(sc) == sc.stack[Len(sc.stack)]

Rats(nts, frame) == nts[frame.nt][frame.k].args

Finished(nts, frame) == frame.nilret \/ frame.i >= Len(Rats(nts, frame))

Current(nts, frame) == Rats(nts, frame)[frame.i + 1]

WithTop(sc, frame) == [sc EXCEPT !.stack = [@ EXCEPT ![Len(@)] = frame]]

Fatal(sc) == [sc EXCEPT !.pc = "fatal"]

(* History: the value each name was last given by a let or inc form of    *)
(* this sample scope (sc before the form, after: the scope it left), and   *)
(* the names a nonterminal's result has been cached under since.           *)
WrittenNames(sc, f) ==
    CASE f.tag = "let" -> {ArgValues(sc, f)[j].s : j \in {x \in 1..Len(f.args) : x % 2 = 1}}
      [] f.tag = "inc" -> {ArgValues(sc, f)[1].s}
      [] OTHER -> {}

Noted(sc, f, after) ==
    [after EXCEPT !.written =
        [x \in {y \in WrittenNames(sc, f) : y \in DOMAIN after.local} |-> after.local[x]] @@ @,
                  !.cached = @ \ WrittenNames(sc, f)]

(* A sub-form that is not a nonterminal is evaluated and its value handed  *)
(* to the rule.                                                            *)
DoEvalTok(nts, fs, sc) ==
    LET res == EvalForm(sc, fs, Current(nts, Top(sc)))
        st == RuleStep(Noted(sc, Current(nts, Top(sc)), res.sc), Top(sc), res.val)
    IN  IF res.panic THEN Fatal(sc) ELSE WithTop(st.sc, st.frame)

(* identNode and formNode's nonterminal branch, up to the call of the      *)
(* chosen rule form: GetNonTerminal, then EvalForms.                       *)
DoExpand(nts, sc, name) ==
    IF name \notin DOMAIN nts THEN Fatal(sc)
    ELSE LET sel == EvalForms(sc, name, nts[name])
         IN  IF sel.fatal THEN Fatal(sc)
             ELSE [sel.sc EXCEPT !.stack = Append(@, NewFrame(name, sel.k)), !.pc = "eval"]

(* The rule form returns: to the driver, or to the identNode / formNode    *)
(* closure that called EvalForms, which caches the value under the         *)
(* nonterminal's name and hands it to the enclosing rule.                  *)
DoReturn(nts, sc) ==
    LET frame == Top(sc)
        val == IF frame.nilret THEN Nil ELSE StrV(frame.str)
        rest == [sc EXCEPT !.stack = SubSeq(@, 1, Len(@) - 1)]
        parent == Top(rest)
        cached == Set([rest EXCEPT !.cached = @ \cup {Current(nts, parent).txt}],
                      Current(nts, parent).txt, val, FALSE)
        st == RuleStep(cached, parent, val)
    IN  IF Len(sc.stack) = 1
        THEN [rest EXCEPT !.out = Append(@, val), !.pc = "ready"]
        ELSE WithTop(st.sc, st.frame)

(* RebuildContext: a derived scope sharing _globals and _random, with an   *)
(* empty local layer and no running weights.                               *)
RebuildContext(sc) == [sc EXCEPT !.local = <<>>, !.W = <<>>, !.written = <<>>, !.cached = {}]

ProdFile == <<"/", "g", "/", "p">>

BuildContextIgnoresSeed(sc, seed, now) ==
    RebuildContext([sc EXCEPT !.prodfile = [ok |-> TRUE, s |-> ProdFile],
                              !.bagdir = [ok |-> TRUE, s |-> <<>>],
                              !.rnd = Seeded(now),
                              !.pc = "ready"])

(* BuildContext, called with an empty bagdir.                              *)
BuildContext(sc, seed, now) ==
    RebuildContext([sc EXCEPT !.prodfile = [ok |-> TRUE, s |-> ProdFile],
                              !.bagdir = [ok |-> TRUE, s |-> <<>>],
                              !.rnd = IF seed # 0 THEN Seeded(seed) ELSE Seeded(now),
                              !.pc = "ready"])

NewScope ==
    [pc |-> "new", rnd |-> 0, globals |-> <<>>, local |-> <<>>, W |-> <<>>,
     written |-> <<>>, cached |-> {}, stack |-> <<>>, out |-> <<>>, ncalls |-> 0,
     bagdir |-> [ok |-> FALSE, s |-> <<>>], prodfile |-> [ok |-> FALSE, s |-> <<>>]]

----------------------------------------------------------------------------
(* The productions the model parses, as the parsec nodes ruleNode receives *)
(* (ruletokNode and formNode have already made forms of the tokens).       *)

(* formNode, builtin branch: a form named after the builtin, closing over  *)
(* its argument forms.                                                     *)
builtinForm(name, ns) == NewForm(name, <<>>, Nil, ns)

(* formNode, nonterminal branch: the form "#"+name.                        *)
ntForm(txt) == NewForm("#<ident>", txt, Nil, <<>>)

intLit(n) == NewForm("##literaltok", Itoa(n), IntV(n), <<>>)
floatLit(n) == NewForm("##literaltok", <<>>, FloatV(n), <<>>)

nS == <<"s">>
nA == <<"a">>
nB == <<"b">>

tX == stringNode(<<"x">>)
tY == stringNode(<<"y">>)
tZ == stringNode(<<"z">>)
tW == stringNode(<<"w">>)
tA == identNode(nA)
tB == identNode(nB)
tAppA == ntForm(nA)
tLetN3 == builtinForm("let", <<formtokForm(<<"n">>), intLit(3)>>)
tLetB3 == builtinForm("let", <<formtokForm(nB), intLit(3)>>)
tIncN == builtinForm("inc", <<formtokForm(<<"n">>)>>)
tIncN2 == builtinForm("inc", <<formtokForm(<<"n">>), intLit(2)>>)
tRefN == refNode(<<"$", "n">>)
tRefB == refNode(<<"$", "b">>)
tRef0 == refNode(<<"#", "0">>)
tNil == NewForm("##nil", <<>>, Nil, <<>>)
tBagF == builtinForm("bag", <<formtokForm(<<"f">>)>>)
tWeigh(w, r) == builtinForm("weigh", <<floatLit(w), floatLit(r)>>)

(* The body family: every body of s up to MaxBody sub-forms, over          *)
(*   a : "y" | (inc n 2) $n | "y" b #0 | (let b 3) b $b .                 *)
(*   b : "z" "w" | <nil> "w" | (bag f) .                                   *)
SToks == {tX, tA, tAppA, tB, tLetN3, tIncN, tRefN, tRef0, tNil}

Bodies == UNION {[1..m -> SToks] : m \in 1..MaxBody}

ADef == <<<<tY>>, <<tIncN2, tRefN>>, <<tY, tB, tRef0>>, <<tLetB3, tB, tRefB>>>>

BDef == <<<<tZ, tW>>, <<tNil, tW>>, <<tBagF>>>>

BodyProds == {(nS :> <<body>>) @@ (nA :> ADef) @@ (nB :> BDef) : body \in Bodies}

(* The weight family: s : a a a . with up to MaxAlts alternatives of a,    *)
(* each plain or annotated (weigh w r).                                    *)
Anns == {<<>>} \cup {<<tWeigh(w, r)>> : w \in {0, One \div 2}, r \in {0, One}}

AltText == <<"x", "y", "z", "w", "v">>

AltLists == UNION {[1..m -> Anns] : m \in 1..MaxAlts}

WeightProds ==
    {(nS :> <<<<tA, tA, tA>>>>)
       @@ (nA :> [j \in 1..Len(anns) |-> anns[j] \o <<stringNode(<<AltText[j]>>)>>])
     : anns \in AltLists}

(* s : (let n 3) a .  a : (inc n) $n .                                     *)
LetIncProd == (nS :> <<<<tLetN3, tA>>>>) @@ (nA :> <<<<tIncN, tRefN>>>>)

(* s : (weigh 0 1) "x" .  with integer literals                            *)
WeighIntProd == (nS :> <<<<builtinForm("weigh", <<intLit(0), intLit(1)>>), tX>>>>)

(* s : (weigh -0.5 0.0) "x" | (weigh 0.5 1.0) "y" .                        *)
NegWeightProd ==
    (nS :> <<<<tWeigh(0 - One \div 2, 0), tX>>, <<tWeigh(One \div 2, One), tY>>>>)

Prods == BodyProds \cup WeightProds \cup {LetIncProd, WeighIntProd, NegWeightProd}

(* The files bag can open.                                                 *)
DefaultFS == (<<"/", "w", "/", "f">> :> <<<<"a", ",", "1">>, <<"b", ",", "2">>>>)

Runs == {1, 2}

(* Clock readings BuildContext may take when the seed is 0.                *)
Nows == {6, 11}

LexIdle == [stage |-> "idle"]
IncIdle == [stage |-> "idle"]
BagIdle == [fs |-> DefaultFS]

----------------------------------------------------------------------------
(* The engine: parse, build the context, then the driver's calls           *)
(* RebuildContext and EvalForms("s", ...), the latter stepping through the *)
(* rule bodies.  R is the set of runs that take the step together.         *)

Others == <<lex, incst, bag>>

Y ==
    /\ parsed = "no"
    /\ IF ParsePanics(prod)
       THEN parsed' = "panic" /\ UNCHANGED nonterminals
       ELSE parsed' = "yes" /\ nonterminals' = ntermsNode(prod)
    /\ UNCHANGED <<prod, seedIn, rt, Others>>

Stepped(R, new) ==
    /\ rt' = [r \in Runs |-> IF r \in R THEN new[r] ELSE rt[r]]
    /\ UNCHANGED <<prod, seedIn, nonterminals, parsed, Others>>

BuildCtx(R) ==
    /\ parsed = "yes"
    /\ \A r \in R : rt[r].pc = "new"
    /\ \E now \in [R -> Nows] :
          Stepped(R, [r \in R |-> BuildContext(rt[r], seedIn, now[r])])

Called(sc) == [sc EXCEPT !.ncalls = @ + 1]

Rebuild(R) ==
    /\ \A r \in R : rt[r].pc = "ready" /\ rt[r].ncalls < MaxCalls
    /\ Stepped(R, [r \in R |-> RebuildContext(Called(rt[r]))])

StartEval(R) ==
    /\ \A r \in R : rt[r].pc = "ready" /\ rt[r].ncalls < MaxCalls
    /\ Stepped(R, [r \in R |-> DoExpand(nonterminals, Called(rt[r]), nS)])

Evaluating(sc) == sc.pc = "eval"

AtTok(sc) ==
    /\ Evaluating(sc)
    /\ ~Finished(nonterminals, Top(sc))
    /\ ~IsNonTerminalForm(Current(nonterminals, Top(sc)))

AtNonTerminal(sc) ==
    /\ Evaluating(sc)
    /\ ~Finished(nonterminals, Top(sc))
    /\ IsNonTerminalForm(Current(nonterminals, Top(sc)))

AtReturn(sc) == Evaluating(sc) /\ Finished(nonterminals, Top(sc))

EvalTok(R) ==
    /\ \A r \in R : AtTok(rt[r])
    /\ Stepped(R, [r \in R |-> DoEvalTok(nonterminals, bag.fs, rt[r])])

ExpandNT(R) ==
    /\ \A r \in R : AtNonTerminal(rt[r])
    /\ Stepped(R, [r \in R |->
          DoExpand(nonterminals, rt[r], Current(nonterminals, Top(rt[r])).txt)])

Return(R) ==
    /\ \A r \in R : AtReturn(rt[r])
    /\ Stepped(R, [r \in R |-> DoReturn(nonterminals, rt[r])])

Init ==
    /\ prod \in Prods
    /\ seedIn \in 0..MaxSeed
    /\ nonterminals = <<>>
    /\ parsed = "no"
    /\ rt = [r \in Runs |-> NewScope]
    /\ lex = LexIdle
    /\ incst = IncIdle
    /\ bag = BagIdle

Next ==
    \/ Y
    \/ BuildCtx({1})
    \/ Rebuild({1})
    \/ StartEval({1})
    \/ EvalTok({1})
    \/ ExpandNT({1})
    \/ Return({1})

Spec == Init /\ [][Next]_vars

----------------------------------------------------------------------------
(* Properties of the parser and the evaluator, for run 1 of Spec.          *)

run == rt[1]

Unweighed(name) == \A j \in 1..Len(prod[name]) : ~Weighed(prod[name][j])

AllRules(rules) == 1..Len(rules)

DeclWeight(name, j) ==
    IF Weighed(prod[name][j]) THEN Weigh(prod[name][j][1])[1].i ELSE 0

DeclRestrain(name, j) ==
    IF Weighed(prod[name][j]) THEN Weigh(prod[name][j][1])[2].i ELSE 0

SoleZeroWeigh(name) ==
    /\ Len(prod[name]) = 1
    /\ Weighed(prod[name][1])
    /\ DeclWeight(name, 1) = 0

Selected == Len(rt'[1].stack) = Len(run.stack) + 1

SelName == Top(rt'[1]).nt
SelK == Top(rt'[1]).k
SelBefore == RunningW(run, SelName, nonterminals[SelName])
SelAfter == rt'[1].W[SelName]

OthersKept ==
    /\ \A j \in 1..Len(SelBefore) : j # SelK => SelAfter[j] = SelBefore[j]
    /\ \A name \in DOMAIN run.W : name # SelName => rt'[1].W[name] = run.W[name]

(* C4 as stated: a selection step changes no running weight but that of    *)
(* the chosen rule, and none at all when the chosen rule's restraint is 0. *)
C4_OnlyChosenChanges ==
    [][Selected => /\ OthersKept
                   /\ DeclRestrain(SelName, SelK) = 0 => SelAfter = SelBefore]_vars

(* C4, amended: a selection step changes no running weight but that of the *)
(* chosen rule, unless it finds no rule eligible and first resets the      *)
(* nonterminal's vector to zero; when the chosen rule's restraint is 0 the *)
(* vector is the same before and after, and the step resets nothing.       *)
C4_OnlyChosenChangesUnlessReset ==
    [][Selected =>
          /\ IF Exhausted(run, SelName, nonterminals[SelName])
             THEN /\ SelAfter = [ZeroW(nonterminals[SelName]) EXCEPT
                                    ![SelK] = 0 - DeclRestrain(SelName, SelK)]
                  /\ \A name \in DOMAIN run.W :
                        name # SelName => rt'[1].W[name] = run.W[name]
             ELSE OthersKept
          /\ DeclRestrain(SelName, SelK) = 0 =>
                /\ SelAfter = SelBefore
                /\ ~Exhausted(run, SelName, nonterminals[SelName])]_vars

(* A restraint-0 rule has just been chosen while another rule of the same  *)
(* nonterminal carries a running penalty.                                  *)
C4_Witness ==
    /\ run.pc = "eval"
    /\ LET top == Top(run)
       IN  /\ DeclRestrain(top.nt, top.k) = 0
           /\ top.i = 0
           /\ \E j \in 1..Len(run.W[top.nt]) : j # top.k /\ run.W[top.nt][j] < 0

----------------------------------------------------------------------------
(* The sub-form run 1 is about to evaluate.                                *)
Cur == Current(nonterminals, Top(run))

AtVarRef == AtTok(run) /\ Cur.tag = "##ref" /\ Head(Cur.txt) = "$"

LetIncSamples ==
    prod = LetIncProd => \A j \in 1..Len(run.out) : run.out[j] = StrV(<<"4">>)

AtArgRef ==
    /\ AtTok(run)
    /\ Cur.tag = "##ref"
    /\ Head(Cur.txt) = "#"
    /\ RunLen(Tail(Cur.txt), DigitCh) = Len(Cur.txt) - 1
    /\ ParseInt(Tail(Cur.txt)) < Top(run).i

ArgIndex == ParseInt(Tail(Cur.txt))

(* No sub-form at a position between j and i is a nonterminal.             *)
NoExpansionBetween ==
    \A p \in (ArgIndex + 2)..Top(run).i : ~IsNonTerminalForm(Rats(nonterminals, Top(run))[p])

NilTok ==
    /\ AtTok(run)
    /\ ~EvalForm(run, bag.fs, Cur).panic
    /\ EvalForm(run, bag.fs, Cur).val = Nil

Below(stack, n) == SubSeq(stack, 1, Len(stack) - n)

(* C10: when a sub-form yields nil the rule stops there: no #i is bound,   *)
(* no later sub-form is evaluated, the rule's frame returns nil, the       *)
(* caller caches nil under the nonterminal's name and its own rule returns *)
(* nil in turn, up to the driver; nothing already written is undone.       *)
C10_NilEndsRule ==
    [][/\ NilTok =>
            /\ rt'[1].stack = Append(Below(run.stack, 1), [Top(run) EXCEPT !.nilret = TRUE])
            /\ rt'[1].local = run.local
            /\ rt'[1].globals = run.globals
            /\ rt'[1].out = run.out
       /\ (Evaluating(run) /\ Top(run).nilret) =>
            IF Len(run.stack) = 1
            THEN /\ rt'[1].stack = <<>>
                 /\ rt'[1].out = Append(run.out, Nil)
                 /\ rt'[1].local = run.local
                 /\ rt'[1].globals = run.globals
            ELSE LET parent == run.stack[Len(run.stack) - 1]
                 IN  /\ rt'[1].stack =
                           Append(Below(run.stack, 2), [parent EXCEPT !.nilret = TRUE])
                     /\ rt'[1].local =
                           (Current(nonterminals, parent).txt :> Nil) @@ run.local
                     /\ rt'[1].globals = run.globals
                     /\ rt'[1].out = run.out]_vars

(* A nil that arose two rules down has reached the driver; what the rules  *)
(* bound before it is still bound.                                         *)
C10_Witness ==
    /\ run.pc = "ready"
    /\ run.out # <<>>
    /\ run.out[Len(run.out)] = Nil
    /\ nA \in DOMAIN run.local /\ run.local[nA] = Nil
    /\ nB \in DOMAIN run.local /\ run.local[nB] = Nil
    /\ <<"#", "0">> \in DOMAIN run.local /\ run.local[<<"#", "0">>] = StrV(<<"y">>)

----------------------------------------------------------------------------
(* Two runs of the same production with the same seed, given the same      *)
(* driver calls in step.                                                   *)

DoInternal(nts, fs, sc) ==
    IF Finished(nts, Top(sc)) THEN DoReturn(nts, sc)
    ELSE IF IsNonTerminalForm(Current(nts, Top(sc)))
    THEN DoExpand(nts, sc, Current(nts, Top(sc)).txt)
    ELSE DoEvalTok(nts, fs, sc)

StepBoth ==
    /\ \E r \in Runs : Evaluating(rt[r])
    /\ Stepped(Runs, [r \in Runs |->
          IF Evaluating(rt[r]) THEN DoInternal(nonterminals, bag.fs, rt[r]) ELSE rt[r]])

NextDet ==
    \/ Y
    \/ BuildCtx(Runs)
    \/ Rebuild(Runs)
    \/ StartEval(Runs)
    \/ StepBoth

SpecDet == Init /\ [][NextDet]_vars

----------------------------------------------------------------------------
(* One token of production text, compiled in rule position (ruletok) or in *)
(* form-argument position (formarg), then evaluated in an empty scope.     *)

LexAlphabet == {"D", "Q", "a", "1", "$", "#"}

Lexemes == UNION {[1..m -> LexAlphabet] : m \in 1..MaxLex}

EmptyScope == [local |-> <<>>, globals |-> <<>>]

EngineIdle ==
    /\ prod = <<>>
    /\ seedIn = 1
    /\ nonterminals = <<>>
    /\ parsed = "no"
    /\ rt = [r \in Runs |-> NewScope]

InitLex ==
    /\ EngineIdle
    /\ lex \in {[stage |-> "text", pos |-> pos, text |-> text, form |-> NoForm, val |-> Nil] :
                  pos \in {"rule", "formarg"}, text \in Lexemes}
    /\ incst = IncIdle
    /\ bag = BagIdle

Compile ==
    /\ lex.stage = "text"
    /\ lex' = [lex EXCEPT !.stage = "compiled",
                          !.form = IF lex.pos = "rule" THEN ruletok(lex.text)
                                   ELSE formarg(lex.text)]
    /\ UNCHANGED <<prod, seedIn, nonterminals, parsed, rt, incst, bag>>

(* Form.Eval in a scope with no bindings and no nonterminals: an ident or  *)
(* a ref panics there.                                                     *)
EvalToken ==
    /\ lex.stage = "compiled"
    /\ lex' = [lex EXCEPT !.stage = IF EvalLeaf(EmptyScope, lex.form).panic
                                    THEN "panic" ELSE "evaluated",
                          !.val = EvalLeaf(EmptyScope, lex.form).val]
    /\ UNCHANGED <<prod, seedIn, nonterminals, parsed, rt, incst, bag>>

NextLex == Compile \/ EvalToken

SpecLex == InitLex /\ [][NextLex]_vars

(* The whole lexeme is an uppercase identifier, [A-Z][A-Z0-9]*.            *)
IsTerminal(text) == text # <<>> /\ term(text) = Len(text)

LiteralOf(text) == IF text \in DOMAIN literals THEN literals[text] ELSE <<>>

(* C7: an uppercase identifier compiles to a ##term form that evaluates to *)
(* literals[name], in rule position and in form-argument position alike.   *)
C7_TerminalIsTermForm ==
    IsTerminal(lex.text) =>
        /\ lex.stage \in {"compiled", "evaluated"} => lex.form.tag = "##term"
        /\ lex.stage = "evaluated" => lex.val = StrV(LiteralOf(lex.text))
        /\ lex.stage # "panic"

----------------------------------------------------------------------------
(* Inc applied to a scope.                                                 *)

IncNames == {<<"n">>, <<"m">>}

IncVals == {IntV(n) : n \in 0..MaxVal} \cup {StrV(<<"x">>)}

IncMaps == UNION {[D -> IncVals] : D \in SUBSET IncNames}

IncArgs ==
    {<<>>, <<IntV(0)>>}
    \cup {<<StrV(name)>> : name \in IncNames}
    \cup {<<StrV(name), by>> : name \in IncNames,
                               by \in {IntV(1), IntV(2), IntV(0 - 1), StrV(<<"x">>)}}

InitInc ==
    /\ EngineIdle
    /\ lex = LexIdle
    /\ incst \in {[stage |-> "call", sc |-> [local |-> l, globals |-> g], args |-> a,
                   before |-> [local |-> l, globals |-> g], ret |-> Nil] :
                    l \in IncMaps, g \in IncMaps, a \in IncArgs}
    /\ bag = BagIdle

IncCall ==
    /\ incst.stage = "call"
    /\ LET res == Inc(incst.sc, incst.args)
       IN  incst' = [incst EXCEPT !.stage = IF res.panic THEN "panic" ELSE "returned",
                                  !.sc = res.sc,
                                  !.ret = res.val]
    /\ UNCHANGED <<prod, seedIn, nonterminals, parsed, rt, lex, bag>>

NextInc == IncCall

SpecInc == InitInc /\ [][NextInc]_vars

IncName == incst.args[1].s
IncBy == IF Len(incst.args) > 1 THEN incst.args[2].i ELSE 1

(* The type assertions of Inc hold: a string name, an int64 quantum, and   *)
(* an int64 value where the name is bound.                                 *)
IncWellTyped ==
    /\ Len(incst.args) > 0
    /\ incst.args[1].t = "str"
    /\ Len(incst.args) > 1 => incst.args[2].t = "int"
    /\ Get(incst.before, IncName).ok => Get(incst.before, IncName).val.t = "int"

(* C5: Inc adds by (1 when omitted) to the variable in the layer where Get *)
(* found it, local before global, leaves the other layer alone, leaves the *)
(* scope alone when the name is unbound, and returns "".                   *)
C5_IncUpdatesInPlace ==
    /\ incst.stage = "returned" =>
          /\ IncWellTyped
          /\ incst.ret = StrV(<<>>)
          /\ IncName \in DOMAIN incst.before.local =>
                /\ incst.sc.local = [incst.before.local EXCEPT
                                        ![IncName] = IntV(@.i + IncBy)]
                /\ incst.sc.globals = incst.before.globals
          /\ (IncName \notin DOMAIN incst.before.local
                /\ IncName \in DOMAIN incst.before.globals) =>
                /\ incst.sc.globals = [incst.before.globals EXCEPT
                                          ![IncName] = IntV(@.i + IncBy)]
                /\ incst.sc.local = incst.before.local
          /\ (IncName \notin DOMAIN incst.before.local
                /\ IncName \notin DOMAIN incst.before.globals) =>
                incst.sc = incst.before
    /\ incst.stage = "panic" => ~IncWellTyped

(* Inc with the quantum omitted has returned after finding the name in the *)
(* global layer only, with another name bound locally.                     *)
C5_Witness ==
    /\ incst.stage = "returned"
    /\ Len(incst.args) = 1
    /\ IncName \notin DOMAIN incst.before.local
    /\ incst.before.local # <<>>
    /\ IncName \in DOMAIN incst.before.globals
    /\ incst.sc.globals[IncName] = IntV(incst.before.globals[IncName].i + 1)

----------------------------------------------------------------------------
(* Goroutines calling Bag against the shared cacheBagRecords under bagrw.  *)
(* Each goroutine evaluates in a scope of its own; the cache and the lock  *)
(* are package variables.                                                  *)

Goroutines == 1..NumGo

PathF == <<"/", "w", "/", "f">>
PathH == <<"/", "w", "/", "h">>

(* Contents of /w/f, as lines: no line, rows of two fields, a row with a   *)
(* wrong number of fields, a blank line before a row of one field.         *)
FileChoices ==
    { <<>>,
      <<<<"a", ",", "1">>>>,
      <<<<"a", ",", "1">>, <<"b", ",", "2">>>>,
      <<<<"a">>, <<"b", ",", "2">>>>,
      <<<<>>, <<"c">>>> }

(* The scopes the calls are made in: _bagdir set, or _prodfile only.       *)
BagScopes ==
    { [bagdir |-> [ok |-> TRUE, s |-> Cwd], prodfile |-> [ok |-> FALSE, s |-> <<>>]],
      [bagdir |-> [ok |-> FALSE, s |-> <<>>],
       prodfile |-> [ok |-> TRUE, s |-> <<"/", "g", "/", "p">>]] }

BagNames == {<<"f">>, <<"h">>}

IdleGo == [pc |-> "idle", path |-> <<>>, rnd |-> 0, records |-> <<>>,
           missed |-> FALSE, ret |-> <<>>]

InitBag ==
    /\ EngineIdle
    /\ lex = LexIdle
    /\ incst = IncIdle
    /\ bag \in {[fs |-> (PathF :> c) @@ (PathH :> <<<<"c">>>>),
                 cache |-> <<>>, readers |-> {}, writer |-> 0, ncalls |-> 0,
                 go |-> [g \in Goroutines |-> IdleGo]] : c \in FileChoices}

BagUnchanged == UNCHANGED <<prod, seedIn, nonterminals, parsed, rt, lex, incst>>

(* Entry to Bag: the file name is resolved to an absolute path.            *)
BagCall(g) ==
    /\ bag.go[g].pc \in {"idle", "returned"}
    /\ bag.ncalls < MaxBagCalls
    /\ \E sc \in BagScopes, name \in BagNames, seed \in 0..1 :
          bag' = [bag EXCEPT !.ncalls = @ + 1,
                             !.go[g] = [IdleGo EXCEPT !.pc = "rlock",
                                                      !.path = BagPath(sc, name),
                                                      !.rnd = Seeded(seed)]]
    /\ BagUnchanged

BagRLock(g) ==
    /\ bag.go[g].pc = "rlock"
    /\ bag.writer = 0
    /\ bag' = [bag EXCEPT !.readers = @ \cup {g}, !.go[g].pc = "lookup"]
    /\ BagUnchanged

(* records, ok := cacheBagRecords[filename]; bagrw.RUnlock()               *)
BagLookup(g) ==
    /\ bag.go[g].pc = "lookup"
    /\ LET ok == bag.go[g].path \in DOMAIN bag.cache
       IN  bag' = [bag EXCEPT !.readers = @ \ {g},
                              !.go[g].records = IF ok THEN bag.cache[bag.go[g].path]
                                                ELSE <<>>,
                              !.go[g].missed = ~ok,
                              !.go[g].pc = IF ok THEN "pick" ELSE "read"]
    /\ BagUnchanged

BagRead(g) ==
    /\ bag.go[g].pc = "read"
    /\ LET read == readBag(bag.fs, bag.go[g].path)
       IN  bag' = [bag EXCEPT !.go[g].records = read.records,
                              !.go[g].pc = IF read.panic THEN "panic" ELSE "lock"]
    /\ BagUnchanged

(* A Lock that does not wait for the holders of the lock.                  *)
BagLockNoWait(g) ==
    /\ bag.go[g].pc = "lock"
    /\ bag' = [bag EXCEPT !.writer = g, !.go[g].pc = "insert"]
    /\ BagUnchanged

BagLock(g) ==
    /\ bag.go[g].pc = "lock"
    /\ bag.writer = 0
    /\ bag.readers = {}
    /\ bag' = [bag EXCEPT !.writer = g, !.go[g].pc = "insert"]
    /\ BagUnchanged

(* cacheBagRecords[filename] = records; bagrw.Unlock()                     *)
BagInsert(g) ==
    /\ bag.go[g].pc = "insert"
    /\ bag' = [bag EXCEPT !.cache = (bag.go[g].path :> bag.go[g].records) @@ @,
                          !.writer = 0,
                          !.go[g].pc = "pick"]
    /\ BagUnchanged

BagPick(g) ==
    /\ bag.go[g].pc = "pick"
    /\ LET rnd1 == RngNext(bag.go[g].rnd)
           records == bag.go[g].records
       IN  bag' = [bag EXCEPT !.go[g].pc = "returned",
                              !.go[g].rnd = IF Len(records) > 0 THEN rnd1 ELSE @,
                              !.go[g].ret = IF Len(records) > 0
                                            THEN BagValue(records, rnd1 % Len(records))
                                            ELSE <<>>]
    /\ BagUnchanged

NextBag ==
    \E g \in Goroutines :
        \/ BagCall(g)
        \/ BagRLock(g)
        \/ BagLookup(g)
        \/ BagRead(g)
        \/ BagLock(g)
        \/ BagInsert(g)
        \/ BagPick(g)

SpecBag == InitBag /\ [][NextBag]_vars

(* The goroutines at a statement that reads or writes cacheBagRecords.     *)
CacheReaders == {g \in Goroutines : bag.go[g].pc = "lookup"}
CacheWriters == {g \in Goroutines : bag.go[g].pc = "insert"}

(* Every access to the cache is made holding bagrw, and an insert excludes *)
(* every other access; each entry is the parsed rows of its file, so that  *)
(* an insert by a second goroutine that also missed stores the same entry. *)
CacheGuarded ==
    /\ \A g \in CacheReaders : g \in bag.readers
    /\ \A g \in CacheWriters : bag.writer = g
    /\ \A g \in CacheWriters : CacheReaders = {} /\ CacheWriters = {g}
    /\ \A p \in DOMAIN bag.cache : bag.cache[p] = readBag(bag.fs, p).records
    /\ \A g \in CacheWriters : bag.go[g].records = readBag(bag.fs, bag.go[g].path).records

Returned == {g \in Goroutines : bag.go[g].pc = "returned"}

FirstFields(p) ==
    {readBag(bag.fs, p).records[j][1] : j \in 1..Len(readBag(bag.fs, p).records)}

(* C6 as stated: cache accesses are guarded as above, and a call returns   *)
(* the first field of some row of its file.                                *)
C6_BagReturnsFirstField ==
    /\ CacheGuarded
    /\ \A g \in Returned : bag.go[g].ret \in FirstFields(bag.go[g].path)

(* C6: cache accesses are guarded as above, and a call returns the first   *)
(* field of some row of its file, or "" when the file has no row.          *)
C6_BagReturnsFirstFieldOrEmpty ==
    /\ CacheGuarded
    /\ \A g \in Returned :
          IF FirstFields(bag.go[g].path) = {} THEN bag.go[g].ret = <<>>
          ELSE bag.go[g].ret \in FirstFields(bag.go[g].path)

(* Two goroutines missed on the same file: one has inserted and returned   *)
(* the first field of the second row, the other is at its own insert.      *)
C6_Witness ==
    \E g \in Returned, h \in CacheWriters :
        /\ bag.go[g].missed
        /\ bag.go[g].path = bag.go[h].path
        /\ bag.go[h].path \in DOMAIN bag.cache
        /\ Len(bag.cache[bag.go[g].path]) = 2
        /\ bag.go[g].ret = bag.cache[bag.go[g].path][2][1]

====
